---- MODULE Spec2Model ----
(***************************************************************************)
(* SimpleModuleManager (src/src/SimpleModuleManager.js, lines 1-255): the  *)
(* manager that listens on the window message bus, filters the messages    *)
(* that carry its childWindowId, dispatches them to the command handlers,  *)
(* calls the host command executor and pushes status snapshots to the      *)
(* remote window.                                                          *)
(*                                                                         *)
(* The browser's event loop is modelled as it schedules this code: one     *)
(* "message" event is dispatched to the registered listeners in            *)
(* registration order, the microtasks a listener queued (the continuation  *)
(* of each `await`) run before the next listener and before the next       *)
(* event.  The host collaborators (app.executeCommand, the reference       *)
(* store, window.open, apogeeplatform) are outside the file: each call to  *)
(* them is a nondeterministic choice over the outcomes the call can have.  *)
(***************************************************************************)
EXTENDS Naturals, Sequences, FiniteSets, TLC

\* ---------------------------------------------------------------- bounds
NumManagers == 2   \* managers constructed on the same window
MaxEntryId == 2    \* entry ids the reference store hands out

\* ------------------------------------------------------- program constants
MODULE_TYPE == "apogee module"
ES_PLATFORM == "es"

VARIABLES
    managers,         \* the constructed managers, in construction order:
                      \*   [childWindowId, childWindow], and openCalled:
                      \*   openModuleManager has been called on it
    uniqueCount,      \* calls of apogeeutil.getUniqueString so far
    store,            \* the host reference store's module list
    nextEntryId,      \* the next entry id the store hands out
    pendingExec,      \* executor commands that returned a Promise, not settled
    event,            \* the message event being dispatched
    pendingListeners, \* listeners that have not yet received `event`
    microtasks,       \* queued continuations of sendInitData/sendStatusUpdate
    log               \* what the last operation did (reset by each operation)

vars == <<managers, uniqueCount, store, nextEntryId, pendingExec, event,
          pendingListeners, microtasks, log>>

\* ------------------------------------------------------------ inbound events
\* An event is event.data flattened.  A string field "" and an entryId 0 are a
\* field the payload lacks (the code tests the fields for truthiness).
BlankEvent ==
    [hasData |-> TRUE, hasValue |-> TRUE, windowId |-> 0, message |-> "none",
     hasCommandData |-> TRUE, identifier |-> "", entryId |-> 0,
     referenceData |-> "", workspaceUrl |-> "", linkUrl |-> ""]

SessionIds == 1 .. NumManagers         \* the windowId values in use
EntryIds == 1 .. MaxEntryId            \* the entry ids in use

\* the payloads of one command each: complete, and lacking a required field
Payloads ==
    {[BlankEvent EXCEPT !.message = "loadApogeeModule", !.identifier = i] :
        i \in {"", "modA"}}
    \cup {[BlankEvent EXCEPT !.message = "unloadApogeeModule", !.entryId = n] :
        n \in {0} \cup EntryIds}
    \cup {[BlankEvent EXCEPT !.message = "updateApogeeModule", !.entryId = n,
                             !.referenceData = r] :
        n \in EntryIds, r \in {"", "modB"}}
    \cup {[BlankEvent EXCEPT !.message = "updateApogeeModule",
                             !.referenceData = "modB"]}
    \cup {[BlankEvent EXCEPT !.message = "openWorkspace", !.workspaceUrl = u] :
        u \in {"", "url"}}
    \cup {[BlankEvent EXCEPT !.message = "openLink", !.linkUrl = u] :
        u \in {"", "url"}}
    \cup {[BlankEvent EXCEPT !.message = m] : m \in {"opened", "closed", "other"}}

CommandMessages ==
    {"loadApogeeModule", "unloadApogeeModule", "updateApogeeModule",
     "openWorkspace", "openLink"}

\* the messages the bus delivers: every payload under every session id, the
\* commands with no commandData, envelopes with no windowId, with no value,
\* and a message with no data at all
Events ==
    {[p EXCEPT !.windowId = w] : p \in Payloads, w \in SessionIds}
    \cup {[BlankEvent EXCEPT !.message = m, !.windowId = w,
                             !.hasCommandData = FALSE] :
            m \in CommandMessages, w \in SessionIds}
    \cup {[BlankEvent EXCEPT !.message = "loadApogeeModule",
                             !.identifier = "modA"],
          [BlankEvent EXCEPT !.message = "opened"],
          [BlankEvent EXCEPT !.hasValue = FALSE, !.message = "loadApogeeModule"],
          [BlankEvent EXCEPT !.hasData = FALSE, !.hasValue = FALSE]}

\* ------------------------------------------------------------------ the log
BlankLog ==
    [op |-> "none", mgr |-> 0, handler |-> "none", execCalls |-> <<>>,
     execResult |-> "none", effect |-> "none", entryId |-> 0,
     platformCalls |-> <<>>, alerts |-> <<>>, posts |-> <<>>, threw |-> FALSE,
     unhandled |-> 0, consoleLog |-> <<>>, landedAsync |-> FALSE,
     openResult |-> "none", pushes |-> <<>>]

\* ------------------------------------------------- what a handler asks for
\* The calls one invocation of receiveMessage makes, in the order the code
\* makes them: the executor commands, the platform calls, the user alerts
\* (apogeeUserAlert), the pushes it starts (sendInitData, sendStatusUpdate),
\* the console.log lines, and whether it threw to its caller.
Quiet ==
    [handler |-> "none", exec |-> <<>>, platform |-> <<>>, alerts |-> <<>>,
     pushes |-> <<>>, threw |-> FALSE, consoleLog |-> <<>>]

\* Outcomes of app.executeCommand: it returns a truthy value, a falsy value,
\* throws, or returns a Promise (truthy) that settles later.  The platform
\* calls return ("true") or throw.
ExecOutcomes == {"true", "false", "throw", "promise"}
Truthy == {"true", "promise"}

Alert(text, reason) == [text |-> text, reason |-> reason]
ErrorMsg == "error.message"

\* event.data.value.commandData as the executor sees it: "undefined" when the
\* value has no commandData, else the payload, told by its identifier.
CommandDataOf(e) == IF e.hasCommandData THEN e.identifier ELSE "undefined"

\* ------------------------------------------ command execution functions
loadModule(referenceData) ==
    [type |-> "addLink", entryType |-> MODULE_TYPE, id |-> 0,
     data |-> referenceData]

updateModule(entryId, newReferenceData) ==
    [type |-> "updateLink", entryType |-> "", id |-> entryId,
     data |-> newReferenceData]

unloadModule(entryId) ==
    [type |-> "deleteLink", entryType |-> "", id |-> entryId, data |-> ""]

\* ----------------------------------------------------- message handlers
\* (load that pushes the status whatever the executor did)
loadModuleCommand_PushAlways(e, out) ==
    LET called == [Quiet EXCEPT !.handler = "loadModuleCommand",
                                !.exec = <<loadModule(CommandDataOf(e))>>,
                                !.pushes = <<"appStatus">>]
    IN  IF out = "throw"
        THEN [called EXCEPT
                !.alerts = <<Alert("Error adding module: ", ErrorMsg)>>]
        ELSE called

loadModuleCommand(e, out) ==
    LET called == [Quiet EXCEPT !.handler = "loadModuleCommand",
                                !.exec = <<loadModule(CommandDataOf(e))>>]
    IN  IF out = "throw"
        THEN [called EXCEPT
                !.alerts = <<Alert("Error adding module: ", ErrorMsg)>>]
        ELSE IF out \in Truthy
        THEN [called EXCEPT !.pushes = <<"appStatus">>]
        ELSE called

\* (update that pushes the status even when the executor threw)
updateModuleCommand_PushAfterAlert(e, out) ==
    LET h == [Quiet EXCEPT !.handler = "updateModuleCommand"]
        called == [h EXCEPT
                     !.exec = <<updateModule(e.entryId, e.referenceData)>>]
    IN  IF ~e.hasCommandData
        THEN [h EXCEPT !.threw = TRUE]
        ELSE IF e.entryId = 0
        THEN [h EXCEPT !.alerts =
                <<Alert("Update module failed: missing module entry ID.", "")>>]
        ELSE IF e.referenceData = ""
        THEN [h EXCEPT !.alerts =
                <<Alert("Update module failed: missing new module reference data.", "")>>]
        ELSE IF out = "throw"
        THEN [called EXCEPT
                !.alerts = <<Alert("Error adding module: ", ErrorMsg)>>,
                !.pushes = <<"appStatus">>]
        ELSE IF out \in Truthy
        THEN [called EXCEPT !.pushes = <<"appStatus">>]
        ELSE called

updateModuleCommand(e, out) ==
    LET h == [Quiet EXCEPT !.handler = "updateModuleCommand"]
        called == [h EXCEPT
                     !.exec = <<updateModule(e.entryId, e.referenceData)>>]
    IN  IF ~e.hasCommandData
        THEN [h EXCEPT !.threw = TRUE]
        ELSE IF e.entryId = 0
        THEN [h EXCEPT !.alerts =
                <<Alert("Update module failed: missing module entry ID.", "")>>]
        ELSE IF e.referenceData = ""
        THEN [h EXCEPT !.alerts =
                <<Alert("Update module failed: missing new module reference data.", "")>>]
        ELSE IF out = "throw"
        THEN [called EXCEPT
                !.alerts = <<Alert("Error adding module: ", ErrorMsg)>>]
        ELSE IF out \in Truthy
        THEN [called EXCEPT !.pushes = <<"appStatus">>]
        ELSE called

\* (unload that never pushes the status)
unloadModuleCommand_NoPush(e, out) ==
    LET h == [Quiet EXCEPT !.handler = "unloadModuleCommand"]
        called == [h EXCEPT !.exec = <<unloadModule(e.entryId)>>]
    IN  IF ~e.hasCommandData
        THEN [h EXCEPT !.threw = TRUE]
        ELSE IF e.entryId = 0
        THEN [h EXCEPT !.alerts =
                <<Alert("Unload module failed: missing module entry ID.", "")>>]
        ELSE IF out = "throw"
        THEN [called EXCEPT
                !.alerts = <<Alert("Error removing module: ", ErrorMsg)>>]
        ELSE called

\* (unload without the test of commandData.entryId)
unloadModuleCommand_NoCheck(e, out) ==
    LET h == [Quiet EXCEPT !.handler = "unloadModuleCommand"]
        called == [h EXCEPT !.exec = <<unloadModule(e.entryId)>>]
    IN  IF ~e.hasCommandData
        THEN [h EXCEPT !.threw = TRUE]
        ELSE IF out = "throw"
        THEN [called EXCEPT
                !.alerts = <<Alert("Error removing module: ", ErrorMsg)>>]
        ELSE IF out \in Truthy
        THEN [called EXCEPT !.pushes = <<"appStatus">>]
        ELSE called

unloadModuleCommand(e, out) ==
    LET h == [Quiet EXCEPT !.handler = "unloadModuleCommand"]
        called == [h EXCEPT !.exec = <<unloadModule(e.entryId)>>]
    IN  IF ~e.hasCommandData
        THEN [h EXCEPT !.threw = TRUE]
        ELSE IF e.entryId = 0
        THEN [h EXCEPT !.alerts =
                <<Alert("Unload module failed: missing module entry ID.", "")>>]
        ELSE IF out = "throw"
        THEN [called EXCEPT
                !.alerts = <<Alert("Error removing module: ", ErrorMsg)>>]
        ELSE IF out \in Truthy
        THEN [called EXCEPT !.pushes = <<"appStatus">>]
        ELSE called

openWorkspaceCommand(e, out) ==
    LET h == [Quiet EXCEPT !.handler = "openWorkspaceCommand"]
        called == [h EXCEPT !.platform = <<"spawnWorkspaceFromUrl">>]
    IN  IF ~e.hasCommandData
        THEN [h EXCEPT !.threw = TRUE]
        ELSE IF e.workspaceUrl = ""
        THEN [h EXCEPT !.alerts =
                <<Alert("Open workspace failed: missing workspace URL.", "")>>]
        ELSE IF out = "throw"
        THEN [called EXCEPT
                !.alerts = <<Alert("Error opening workspace: ", ErrorMsg)>>]
        ELSE called

\* (open-link that goes through the executor and pushes the status)
openLinkCommand_ViaExecutor(e, out) ==
    LET h == [Quiet EXCEPT !.handler = "openLinkCommand"]
        called == [h EXCEPT !.exec = <<loadModule(e.linkUrl)>>]
    IN  IF ~e.hasCommandData
        THEN [h EXCEPT !.threw = TRUE]
        ELSE IF e.linkUrl = ""
        THEN [h EXCEPT !.alerts =
                <<Alert("Open link failed: missing link URL.", "")>>]
        ELSE IF out = "throw"
        THEN [called EXCEPT
                !.alerts = <<Alert("Error opening link: ", ErrorMsg)>>]
        ELSE IF out \in Truthy
        THEN [called EXCEPT !.pushes = <<"appStatus">>]
        ELSE called

openLinkCommand(e, out) ==
    LET h == [Quiet EXCEPT !.handler = "openLinkCommand"]
        called == [h EXCEPT !.platform = <<"openWebLink">>]
    IN  IF ~e.hasCommandData
        THEN [h EXCEPT !.threw = TRUE]
        ELSE IF e.linkUrl = ""
        THEN [h EXCEPT !.alerts =
                <<Alert("Open link failed: missing link URL.", "")>>]
        ELSE IF out = "throw"
        THEN [called EXCEPT
                !.alerts = <<Alert("Error opening link: ", ErrorMsg)>>]
        ELSE called

\* ------------------------------------------------------- the dispatcher
\* (a filter that tests the value only, not its windowId)
isMyMessage_AnyValue(mgr, e) == e.hasValue

\* (a filter that tests that there is a windowId, not that it is this one)
isMyMessage_AnyId(mgr, e) == e.hasValue /\ e.windowId # 0

\* messageData && messageData.windowId == this.childWindowId
isMyMessage(mgr, e) == e.hasValue /\ e.windowId = mgr.childWindowId

\* (a switch whose default case is the load handler)
receiveMessage_DefaultLoad(mgr, e, out) ==
    IF ~e.hasData
    THEN [Quiet EXCEPT !.threw = TRUE]
    ELSE IF ~isMyMessage(mgr, e)
    THEN Quiet
    ELSE CASE e.message = "opened" ->
                [Quiet EXCEPT !.handler = "opened",
                              !.pushes = <<"initModules", "appStatus">>]
           [] e.message = "unloadApogeeModule" -> unloadModuleCommand(e, out)
           [] e.message = "updateApogeeModule" -> updateModuleCommand(e, out)
           [] e.message = "openWorkspace" -> openWorkspaceCommand(e, out)
           [] e.message = "openLink" -> openLinkCommand(e, out)
           [] e.message = "closed" ->
                [Quiet EXCEPT !.handler = "closed", !.consoleLog = <<"closed">>]
           [] OTHER -> loadModuleCommand(e, out)

receiveMessage(mgr, e, out) ==
    IF ~e.hasData
    THEN [Quiet EXCEPT !.threw = TRUE]      \* event.data.value of no data
    ELSE IF ~isMyMessage(mgr, e)
    THEN Quiet
    ELSE CASE e.message = "opened" ->
                [Quiet EXCEPT !.handler = "opened",
                              !.pushes = <<"initModules", "appStatus">>]
           [] e.message = "loadApogeeModule" -> loadModuleCommand(e, out)
           [] e.message = "unloadApogeeModule" -> unloadModuleCommand(e, out)
           [] e.message = "updateApogeeModule" -> updateModuleCommand(e, out)
           [] e.message = "openWorkspace" -> openWorkspaceCommand(e, out)
           [] e.message = "openLink" -> openLinkCommand(e, out)
           [] e.message = "closed" ->
                [Quiet EXCEPT !.handler = "closed", !.consoleLog = <<"closed">>]
           [] OTHER -> Quiet

\* ------------------------------------------------- the host collaborators
\* apogeeutil.getUniqueString(): the n-th call returns a string no earlier
\* call returned (the strings are told apart by their number).
getUniqueString(n) == n + 1

\* The reference store behind app.executeCommand: a list of entries
\* [id, data].  addLink appends an entry under a fresh id, updateLink replaces
\* the data of the entry with the given id, deleteLink removes it.
HasEntry(st, id) == \E i \in 1 .. Len(st) : st[i].id = id

Applicable(cmd, st, next) ==
    CASE cmd.type = "addLink" ->
            cmd.data \notin {"undefined", ""} /\ next <= MaxEntryId
      [] cmd.type = "updateLink" -> HasEntry(st, cmd.id)
      [] cmd.type = "deleteLink" -> HasEntry(st, cmd.id)
      [] OTHER -> FALSE

ApplyCommand(cmd, st, next) ==
    CASE cmd.type = "addLink" -> Append(st, [id |-> next, data |-> cmd.data])
      [] cmd.type = "updateLink" ->
            [i \in 1 .. Len(st) |->
                IF st[i].id = cmd.id THEN [st[i] EXCEPT !.data = cmd.data]
                                     ELSE st[i]]
      [] cmd.type = "deleteLink" ->
            SelectSeq(st, LAMBDA en : en.id # cmd.id)
      [] OTHER -> st

\* The entry a command is about: the new entry of an addLink, else cmd.id.
EntryOf(cmd, next) == IF cmd.type = "addLink" THEN next ELSE cmd.id

\* ------------------------------------------------------------ the pushes
getInitModulesData == [platform |-> ES_PLATFORM, loaded |-> <<>>]

\* (a module list cached when the manager was made, never read again)
getAppStatusData_Cached(st) == [platform |-> "", loaded |-> <<>>]

\* referenceManager.getModuleList(MODULE_TYPE), read when the push starts
getAppStatusData(st) == [platform |-> "", loaded |-> st]

\* (an init push that posts nothing)
sendInitData_NoPost(m, mgr) == <<>>

\* sendInitData up to its await: nothing when there is no child window
sendInitData(m, mgr) ==
    IF mgr.childWindow # "null"
    THEN <<[message |-> "initModules", mgr |-> m,
            value |-> getInitModulesData, fails |-> FALSE]>>
    ELSE <<>>

\* (a status push that does not test this.childWindow)
sendStatusUpdate_NoHandleCheck(m, mgr, st, fails) ==
    <<[message |-> "appStatus", mgr |-> m,
       value |-> getAppStatusData(st), fails |-> fails]>>

\* sendStatusUpdate up to its await; `fails`: getAppStatusData throws, so the
\* awaited promise is rejected
sendStatusUpdate(m, mgr, st, fails) ==
    IF mgr.childWindow # "null"
    THEN <<[message |-> "appStatus", mgr |-> m,
            value |-> getAppStatusData(st), fails |-> fails]>>
    ELSE <<>>

RECURSIVE StartPushes(_, _, _, _, _)
StartPushes(pushes, m, mgr, st, fails) ==
    IF pushes = <<>> THEN <<>>
    ELSE (IF Head(pushes) = "initModules"
          THEN sendInitData(m, mgr)
          ELSE sendStatusUpdate(m, mgr, st, fails))
         \o StartPushes(Tail(pushes), m, mgr, st, fails)

\* ------------------------------------------------------------------ state
\* What stays of a finished dispatch: the line it left on the console.
Summary(l) ==
    IF l.consoleLog = <<>> THEN BlankLog
    ELSE [BlankLog EXCEPT !.op = l.op, !.mgr = l.mgr, !.handler = l.handler,
                          !.consoleLog = l.consoleLog]

\* no listener is to run, no microtask is queued, and the log of the last
\* dispatch has been closed
Idle ==
    /\ pendingListeners = 0
    /\ microtasks = <<>>
    /\ log.op = "receive" => log = Summary(log) /\ event = BlankEvent

\* no pending command belongs to the operation the log is about any more
Uncur(pend) == {[q EXCEPT !.cur = FALSE] : q \in pend}

Init ==
    /\ managers = <<>>
    /\ uniqueCount = 0
    /\ store = <<>>
    /\ nextEntryId = 1
    /\ pendingExec = {}
    /\ event = BlankEvent
    /\ pendingListeners = 0
    /\ microtasks = <<>>
    /\ log = BlankLog

\* new SimpleModuleManager(app, options): the listener is registered here
Construct ==
    /\ Idle
    /\ Len(managers) < NumManagers
    /\ managers' = Append(managers,
            [childWindowId |-> getUniqueString(uniqueCount),
             childWindow |-> "null", openCalled |-> FALSE])
    /\ uniqueCount' = uniqueCount + 1
    /\ pendingExec' = Uncur(pendingExec)
    /\ log' = [BlankLog EXCEPT !.op = "construct", !.mgr = Len(managers) + 1]
    /\ UNCHANGED <<store, nextEntryId, event, pendingListeners, microtasks>>

\* openModuleManager(): window.open returns a window, returns null (the popup
\* is blocked) or throws
OpenResults == {"window", "null", "throws"}

openModuleManager(mgr, res) ==
    IF res = "throws" THEN [mgr EXCEPT !.openCalled = TRUE]
    ELSE [mgr EXCEPT !.childWindow = res, !.openCalled = TRUE]

OpenModuleManager(m, res) ==
    /\ Idle
    /\ managers' = [managers EXCEPT ![m] = openModuleManager(managers[m], res)]
    /\ pendingExec' = Uncur(pendingExec)
    /\ log' = [BlankLog EXCEPT
                !.op = "open", !.mgr = m, !.openResult = res,
                !.alerts = IF res = "throws"
                           THEN <<Alert("Error opening module manager: ", ErrorMsg)>>
                           ELSE <<>>]
    /\ UNCHANGED <<uniqueCount, store, nextEntryId, event, pendingListeners,
                   microtasks>>

\* One listener's receiveMessage(event), up to its return.  `out` is what the
\* executor or platform call does if the handler makes one, `fails` whether
\* getAppStatusData throws if a status push is started.
Dispatch(m, e, out, fails) ==
    LET mgr == managers[m]
        eff == receiveMessage(mgr, e, out)
        calls == eff.exec # <<>>
        cmd == eff.exec[1]
        sync == calls /\ out = "true"
        st == IF sync THEN ApplyCommand(cmd, store, nextEntryId) ELSE store
    IN  /\ calls /\ out = "true" => Applicable(cmd, store, nextEntryId)
        /\ store' = st
        /\ nextEntryId' = IF sync /\ cmd.type = "addLink"
                          THEN nextEntryId + 1 ELSE nextEntryId
        /\ pendingExec' = Uncur(pendingExec) \cup
                (IF calls /\ out = "promise"
                 THEN {[cmd |-> cmd, cur |-> TRUE]} ELSE {})
        /\ microtasks' = StartPushes(eff.pushes, m, mgr, st, fails)
        /\ log' = [BlankLog EXCEPT
                !.op = "receive", !.mgr = m, !.handler = eff.handler,
                !.execCalls = eff.exec,
                !.execResult = IF calls THEN out ELSE "none",
                !.effect = IF ~calls THEN "none"
                           ELSE IF out = "true" THEN "landed"
                           ELSE IF out = "promise" THEN "pending"
                           ELSE "failed",
                !.entryId = IF sync THEN EntryOf(cmd, nextEntryId) ELSE 0,
                !.platformCalls = eff.platform,
                !.alerts = eff.alerts,
                !.pushes = eff.pushes,
                !.threw = eff.threw,
                !.consoleLog = eff.consoleLog]
        /\ UNCHANGED <<managers, uniqueCount>>

\* the outcomes the calls of this invocation can have: of the executor call,
\* of the platform call, none when it makes no call
OutcomesFor(mgr, e) ==
    LET eff == receiveMessage(mgr, e, "false")
    IN  IF eff.exec # <<>> THEN ExecOutcomes
        ELSE IF eff.platform # <<>> THEN {"true", "throw"}
        ELSE {"false"}

\* getAppStatusData can throw only where it is called, and not right after
\* the executor has applied a command: the workspace manager and reference
\* manager it reads are the ones the executor has just written to
FailsFor(mgr, e, out) ==
    IF mgr.childWindow # "null" /\ e.hasData /\ e.hasValue /\ out # "true"
    THEN BOOLEAN ELSE {FALSE}

\* a message event arrives: the first registered listener receives it
Deliver(e) ==
    /\ Idle
    /\ Len(managers) >= 1
    /\ event' = e
    /\ pendingListeners' = Len(managers) - 1
    /\ \E out \in OutcomesFor(managers[1], e) :
            \E fails \in FailsFor(managers[1], e, out) :
                Dispatch(1, e, out, fails)

\* the next registered listener receives the same event
NextListener ==
    /\ pendingListeners > 0
    /\ microtasks = <<>>
    /\ pendingListeners' = pendingListeners - 1
    /\ UNCHANGED event
    /\ LET m == Len(managers) - pendingListeners + 1
       IN  \E out \in OutcomesFor(managers[m], event) :
                \E fails \in FailsFor(managers[m], event, out) :
                    Dispatch(m, event, out, fails)

\* (a continuation that drops the window handle once it has posted)
RunMicrotask_ClearsHandle ==
    /\ microtasks # <<>>
    /\ LET mt == Head(microtasks)
           posted == mt.fails = FALSE /\ managers[mt.mgr].childWindow # "null"
       IN  /\ log' = IF posted
                      THEN [log EXCEPT !.posts = Append(@,
                                [message |-> mt.message, value |-> mt.value,
                                 effect |-> log.effect])]
                      ELSE [log EXCEPT !.unhandled = @ + 1]
           /\ managers' = [managers EXCEPT ![mt.mgr].childWindow = "null"]
    /\ microtasks' = Tail(microtasks)
    /\ UNCHANGED <<uniqueCount, store, nextEntryId, pendingExec,
                   event, pendingListeners>>

\* the continuation of the await in sendInitData / sendStatusUpdate:
\* this.childWindow.postMessage(...), or the rejection nobody handles
RunMicrotask ==
    /\ microtasks # <<>>
    /\ LET mt == Head(microtasks)
           posted == mt.fails = FALSE /\ managers[mt.mgr].childWindow # "null"
       IN  log' = IF posted
                  THEN [log EXCEPT !.posts = Append(@,
                            [message |-> mt.message, value |-> mt.value,
                             effect |-> log.effect])]
                  ELSE [log EXCEPT !.unhandled = @ + 1]
    /\ microtasks' = Tail(microtasks)
    /\ UNCHANGED <<managers, uniqueCount, store, nextEntryId, pendingExec,
                   event, pendingListeners>>

\* the dispatch of the event is over: every listener has returned, the
\* microtasks have run and the executor's promises have settled (a promise
\* settles within the dispatch that started it); the event is dropped and
\* the log of the dispatch is closed
Complete ==
    /\ pendingListeners = 0
    /\ microtasks = <<>>
    /\ log.op = "receive"
    /\ log # Summary(log) \/ event # BlankEvent
    /\ pendingExec = {}
    /\ log' = Summary(log)
    /\ event' = BlankEvent
    /\ UNCHANGED <<managers, uniqueCount, store, nextEntryId, pendingExec,
                   pendingListeners, microtasks>>

\* a Promise the executor returned settles: the command is applied now
\* (ok) or is rejected
ExecSettle(p, ok) ==
    /\ p \in pendingExec
    /\ ok => Applicable(p.cmd, store, nextEntryId)
    /\ pendingExec' = pendingExec \ {p}
    /\ store' = IF ok THEN ApplyCommand(p.cmd, store, nextEntryId) ELSE store
    /\ nextEntryId' = IF ok /\ p.cmd.type = "addLink"
                      THEN nextEntryId + 1 ELSE nextEntryId
    /\ log' = [log EXCEPT
                !.landedAsync = @ \/ ok,
                !.effect = IF p.cur THEN (IF ok THEN "landed" ELSE "failed")
                           ELSE @,
                !.entryId = IF p.cur /\ ok THEN EntryOf(p.cmd, nextEntryId)
                            ELSE @]
    /\ UNCHANGED <<managers, uniqueCount, event, pendingListeners, microtasks>>

Next ==
    \/ Construct
    \/ \E m \in 1 .. Len(managers), res \in OpenResults : OpenModuleManager(m, res)
    \/ \E e \in Events : Deliver(e)
    \/ NextListener
    \/ RunMicrotask
    \/ Complete
    \/ \E p \in pendingExec, ok \in BOOLEAN : ExecSettle(p, ok)

Spec == Init /\ [][Next]_vars

\* ================================================================ claims
\* a listener has received `event` and the dispatch is still open
Receiving == log.op = "receive" /\ event # BlankEvent

\* the listener's own part of the dispatch is over: it has returned and the
\* microtasks it queued have run
Quiescent == Receiving /\ microtasks = <<>>

\* the envelope carries manager m's childWindowId
TaggedFor(m) ==
    /\ event.hasData /\ event.hasValue
    /\ event.windowId # 0
    /\ event.windowId = managers[m].childWindowId

\* the listener did nothing anyone can see
NothingDone ==
    /\ log.handler = "none"
    /\ log.execCalls = <<>>
    /\ log.platformCalls = <<>>
    /\ log.alerts = <<>>
    /\ log.posts = <<>>
    /\ microtasks = <<>>
    /\ log.consoleLog = <<>>

StatusPosts == SelectSeq(log.posts, LAMBDA p : p.message = "appStatus")

MutatingMessages ==
    {"loadApogeeModule", "unloadApogeeModule", "updateApogeeModule"}

\* C1: a message whose envelope carries no value, no windowId or a windowId
\* other than the receiving manager's childWindowId invokes no handler, calls
\* neither the executor nor the platform, posts nothing and alerts nobody,
\* whatever state the manager is in.
C1_ForeignMessageIgnored ==
    Receiving /\ ~TaggedFor(log.mgr) => NothingDone

\* C1 witness: a complete load command tagged with another session's id has
\* been received by a manager whose window is open, while the store holds an
\* entry.
C1_Witness ==
    /\ Quiescent
    /\ event.hasValue /\ event.windowId # 0
    /\ event.windowId # managers[log.mgr].childWindowId
    /\ event.message = "loadApogeeModule" /\ event.identifier = "modA"
    /\ managers[log.mgr].childWindow = "window"
    /\ store # <<>>
    /\ NothingDone

\* C7: two managers never have the same childWindowId, and a message tagged
\* with an earlier manager's childWindowId does nothing in a later manager
\* listening on the same bus.
C7_SessionsDistinct ==
    /\ \A i, j \in 1 .. Len(managers) :
            i # j => managers[i].childWindowId # managers[j].childWindowId
    /\ Receiving /\ (\E i \in 1 .. Len(managers) : i < log.mgr /\ TaggedFor(i))
            => NothingDone

\* C7 witness: the second manager, its window open, has received a complete
\* load command tagged with the first manager's id.
C7_Witness ==
    /\ Quiescent
    /\ log.mgr = 2
    /\ TaggedFor(1)
    /\ event.message = "loadApogeeModule" /\ event.identifier = "modA"
    /\ managers[2].childWindow = "window"
    /\ NothingDone

\* the payload is there and lacks a field the command requires
LacksRequiredField ==
    /\ event.hasCommandData
    /\ \/ event.message = "updateApogeeModule"
          /\ (event.entryId = 0 \/ event.referenceData = "")
       \/ event.message = "unloadApogeeModule" /\ event.entryId = 0
       \/ event.message = "openWorkspace" /\ event.workspaceUrl = ""
       \/ event.message = "openLink" /\ event.linkUrl = ""

\* the alerts that name the command and the missing field
MissingFieldAlerts(message) ==
    CASE message = "updateApogeeModule" ->
            {"Update module failed: missing module entry ID.",
             "Update module failed: missing new module reference data."}
      [] message = "unloadApogeeModule" ->
            {"Unload module failed: missing module entry ID."}
      [] message = "openWorkspace" ->
            {"Open workspace failed: missing workspace URL."}
      [] message = "openLink" -> {"Open link failed: missing link URL."}
      [] OTHER -> {}

\* C9: an update, unload, open-workspace or open-link message with the
\* manager's id whose payload lacks a required field raises exactly one alert,
\* the one of that command, and calls neither the executor nor the platform:
\* nothing is mutated and no status push is started.
C9_MissingFieldFailsClosed ==
    Receiving /\ TaggedFor(log.mgr) /\ LacksRequiredField =>
        /\ Len(log.alerts) = 1
        /\ log.alerts[1].text \in MissingFieldAlerts(event.message)
        /\ log.execCalls = <<>>
        /\ log.effect = "none"
        /\ log.platformCalls = <<>>
        /\ log.posts = <<>>
        /\ microtasks = <<>>
        /\ ~log.threw

\* C9 witness: an unload with no entry id has been received by a manager whose
\* window is open, while the store holds an entry it could have removed.
C9_Witness ==
    /\ Quiescent /\ TaggedFor(log.mgr)
    /\ event.message = "unloadApogeeModule" /\ event.hasCommandData
    /\ event.entryId = 0
    /\ managers[log.mgr].childWindow = "window"
    /\ store # <<>>
    /\ Len(log.alerts) = 1

\* C2: a load command with the manager's id whose payload has no module
\* identifier does not reach the executor, starts no status push and raises
\* exactly one "missing identifier" alert.
C2_LoadWithoutIdentifierRejected ==
    Receiving /\ TaggedFor(log.mgr) /\ event.message = "loadApogeeModule"
        /\ event.hasCommandData /\ event.identifier = "" =>
            /\ log.execCalls = <<>>
            /\ log.posts = <<>>
            /\ microtasks = <<>>
            /\ Len(log.alerts) = 1
            /\ log.alerts[1].text = "Load module failed: missing module identifier."

\* the manager that received the message holds a window handle
HandlePresent == managers[log.mgr].childWindow # "null"

\* a load, unload or update tagged for the receiving manager
MutatingCommand ==
    Receiving /\ TaggedFor(log.mgr) /\ event.message \in MutatingMessages

NoStatusPush ==
    /\ StatusPosts = <<>>
    /\ \A i \in 1 .. Len(microtasks) : microtasks[i].message # "appStatus"

Occurrences(list, id) ==
    Cardinality({i \in 1 .. Len(list) : list[i].id = id})

\* the snapshots of the load and unload that landed hold, and do not hold,
\* the entry
LoadedEntryListed(applied) ==
    /\ MutatingCommand /\ applied /\ event.message = "loadApogeeModule" =>
        \A i \in 1 .. Len(StatusPosts) :
            Occurrences(StatusPosts[i].value.loaded, log.entryId) = 1
    /\ MutatingCommand /\ applied /\ event.message = "unloadApogeeModule" =>
        \A i \in 1 .. Len(StatusPosts) :
            Occurrences(StatusPosts[i].value.loaded, event.entryId) = 0

\* an appStatus message is posted in this step
PostsStatus ==
    /\ Len(log'.posts) = Len(log.posts) + 1
    /\ log'.posts[Len(log'.posts)].message = "appStatus"

C6_ClosedStopsDispatch ==
    [][log.op = "receive" /\ log.handler = "closed" =>
        ~(/\ log'.op = "receive" /\ log'.mgr = log.mgr
          /\ event' # BlankEvent /\ event' # event
          /\ \/ log'.handler # "none"
             \/ log'.execCalls # <<>>
             \/ microtasks' # <<>>)]_vars

\* C8: receiveMessage returns normally for every message the bus delivers.
C8_ReceiveNeverThrows == log.op = "receive" => ~log.threw

\* C10: when opening the window fails (window.open throws or returns no
\* handle), an alert is raised, the handle is absent, and the manager handles
\* no message after it.
C10_OpenFailureTearsDown ==
    /\ [](log.op = "open" /\ log.openResult \in {"null", "throws"} =>
            /\ Len(log.alerts) = 1
            /\ managers[log.mgr].childWindow = "null")
    /\ [][log.op = "open" /\ log.openResult \in {"null", "throws"} =>
            ~(/\ log'.op = "receive" /\ log'.mgr = log.mgr
              /\ log'.handler # "none")]_vars

\* C11: a command message with the manager's id that arrives after the
\* manager is constructed and before openModuleManager has been called on it
\* causes no executor call, no push and no alert.
C11_UnopenedIgnoresCommands ==
    Receiving /\ TaggedFor(log.mgr) /\ event.message \in CommandMessages
        /\ ~managers[log.mgr].openCalled =>
            /\ log.execCalls = <<>>
            /\ log.alerts = <<>>
            /\ log.posts = <<>>
            /\ microtasks = <<>>

\* C12: when openModuleManager is called on a manager whose window was opened
\* before, the window it opens carries a childWindowId other than the one the
\* earlier window carried.
C12_ReopenUsesNewId ==
    [][\A m \in 1 .. Len(managers) :
        managers[m].childWindow = "window" /\ log'.op = "open" /\ log'.mgr = m
            /\ log'.openResult = "window" =>
                managers'[m].childWindowId # managers[m].childWindowId]_vars

\* C13: a push started while the manager holds no window handle posts
\* nothing, queues nothing, raises no exception (neither out of the listener
\* nor as a rejected promise) and no alert.
C13_PushWithoutHandleIsNoOp ==
    Receiving /\ log.pushes # <<>> /\ ~HandlePresent =>
        /\ log.posts = <<>>
        /\ microtasks = <<>>
        /\ log.unhandled = 0
        /\ ~log.threw
        /\ log.alerts = <<>>

\* C13 witness: "opened" has reached a manager whose openModuleManager got no
\* window; both pushes were started and nothing was posted.
C13_Witness ==
    /\ Quiescent /\ TaggedFor(log.mgr)
    /\ log.handler = "opened"
    /\ managers[log.mgr].openCalled /\ ~HandlePresent
    /\ log.pushes = <<"initModules", "appStatus">>
    /\ log.posts = <<>>

\* the message names the switch of receiveMessage has a case for
KnownMessages == CommandMessages \cup {"opened", "closed"}

\* C14: a message with the manager's id whose name is none of the known ones
\* runs no handler, calls neither the executor nor the platform, posts
\* nothing, alerts nobody and raises no exception.
C14_UnknownCommandDiscarded ==
    Receiving /\ TaggedFor(log.mgr) /\ event.message \notin KnownMessages =>
        /\ NothingDone
        /\ ~log.threw
        /\ log.unhandled = 0

\* C14 witness: a message named "other" with the manager's id has been
\* received by a manager whose window is open, while the store holds an entry.
C14_Witness ==
    /\ Quiescent /\ TaggedFor(log.mgr)
    /\ event.message = "other"
    /\ HandlePresent
    /\ store # <<>>
    /\ NothingDone /\ ~log.threw

\* the operation a message asks for, and the operation an alert names
OperationOf(message) ==
    CASE message = "loadApogeeModule" -> "add"
      [] message = "updateApogeeModule" -> "update"
      [] message = "unloadApogeeModule" -> "remove"
      [] OTHER -> "none"

OperationNamed(text) ==
    CASE text = "Error adding module: " -> "add"
      [] text = "Error updating module: " -> "update"
      [] text = "Error removing module: " -> "remove"
      [] OTHER -> "none"

\* C15: when the executor throws on a load, update or unload, exactly one
\* alert is raised; it names the operation that failed (add, update, remove)
\* and carries the message of the error thrown.
C15_AlertNamesOperation ==
    MutatingCommand /\ log.execResult = "throw" =>
        /\ Len(log.alerts) = 1
        /\ OperationNamed(log.alerts[1].text) = OperationOf(event.message)
        /\ log.alerts[1].reason = ErrorMsg

\* something failed while the receiving manager processed the message
ProcessingFailed ==
    \/ LacksRequiredField
    \/ event.message = "loadApogeeModule" /\ event.identifier = ""
    \/ log.execResult \in {"throw", "false"}
    \/ log.effect = "failed"
    \/ log.unhandled > 0
    \/ log.threw

\* C16: every failure while a message with the manager's id is processed (a
\* missing field, a failure of the executor, of building the snapshot or of
\* posting it) and every failure to open the window raises an alert.
C16_EveryFailureAlerts ==
    /\ Receiving /\ TaggedFor(log.mgr) /\ event.message \in KnownMessages
            /\ ProcessingFailed => log.alerts # <<>>
    /\ log.op = "open" /\ log.openResult \in {"null", "throws"} =>
            log.alerts # <<>>

\* "opened" with the manager's id has been handled by a manager that holds a
\* window handle, and the continuations it queued have run
OpenedHandled ==
    /\ Quiescent /\ TaggedFor(log.mgr)
    /\ event.message = "opened"
    /\ HandlePresent

PostedMessages == [i \in 1 .. Len(log.posts) |-> log.posts[i].message]

OpenMessages == {"openWorkspace", "openLink"}

\* C18: an open-workspace or open-link message, whether it succeeds, lacks
\* its field or fails in the platform call, never calls the executor, starts
\* no status push and leaves the reference store as it was.
C18_OpenCommandsLeaveStore ==
    /\ [](Receiving /\ TaggedFor(log.mgr) /\ event.message \in OpenMessages =>
            /\ log.execCalls = <<>>
            /\ log.effect = "none"
            /\ log.pushes = <<>>
            /\ log.posts = <<>>
            /\ microtasks = <<>>)
    /\ [][event'.message \in OpenMessages =>
            store' = store /\ nextEntryId' = nextEntryId]_vars

\* C18 witness: an open-link with its URL has made its platform call for a
\* manager whose window is open, while the store holds an entry.
C18_Witness ==
    /\ Quiescent /\ TaggedFor(log.mgr)
    /\ event.message = "openLink"
    /\ log.platformCalls = <<"openWebLink">>
    /\ HandlePresent
    /\ store # <<>>
    /\ log.execCalls = <<>>

\* C19: no step changes a manager's childWindowId, and only
\* openModuleManager changes its childWindow: the message handlers and the
\* pushes leave both as they are.
C19_HandleAndIdFrame ==
    [][\A m \in 1 .. Len(managers) :
        /\ managers'[m].childWindowId = managers[m].childWindowId
        /\ managers'[m].childWindow # managers[m].childWindow =>
                log'.op = "open" /\ log'.mgr = m]_vars

\* C19 witness: a load has been applied and its status posted; the manager
\* still holds the window and the id the message was tagged with.
C19_Witness ==
    /\ MutatingCommand /\ Quiescent
    /\ event.message = "loadApogeeModule"
    /\ log.effect = "landed"
    /\ Len(log.posts) = 1
    /\ managers[log.mgr].childWindow = "window"
    /\ managers[log.mgr].childWindowId = event.windowId

\* C20: one load, unload or update makes at most one executor call, raises
\* at most one alert, starts at most one status push, and never both an
\* alert and a push.
C20_OneCallOneOutcome ==
    MutatingCommand =>
        /\ Len(log.execCalls) <= 1
        /\ Len(log.alerts) + Len(log.pushes) <= 1
        /\ Len(log.posts) + Len(microtasks) <= Len(log.pushes)
        /\ \A i \in 1 .. Len(log.pushes) : log.pushes[i] = "appStatus"

\* C20 witness: an update the executor applied has posted its one status and
\* raised no alert.
C20_Witness ==
    /\ MutatingCommand /\ Quiescent
    /\ event.message = "updateApogeeModule"
    /\ log.execResult = "true"
    /\ Len(log.execCalls) = 1
    /\ Len(log.posts) = 1
    /\ log.alerts = <<>>

====
